---- MODULE Spec2Model ----
(***************************************************************************)
(* Word-Ladder: the word graph (word_graph.py), the three searches         *)
(* (search.py) and the game session (game.py).                             *)
(*                                                                         *)
(* A word is a sequence of one-character strings.  Python sets iterate in  *)
(* an order the language does not fix (string hashes are salted per        *)
(* process), so every loop over a set is modelled by all of its orders.    *)
(***************************************************************************)
EXTENDS Integers, Sequences, FiniteSets, TLC

VARIABLES
    word_list,          \* WordGraph.word_list: the dictionary
    word_connections,   \* WordGraph.word_connections: word -> set of words
    word_parents,       \* WordGraph.word_parents: word -> word
    built,              \* build_word_network has run on word_list
    start_word,         \* the searches' first argument
    target_word,        \* the searches' second argument
    bfs_result,         \* what bfs(start_word, target_word) returned
    ucs_result,         \* what ucs(start_word, target_word) returned
    astar_result,       \* what astar(start_word, target_word) returned
    game,               \* the fields of the WordLadderGame object
    score_result,       \* what calculate_score() returned
    search_run,         \* a search under way: its queue, its visited set, its result
    setup               \* a dictionary source and what initialize_game made of it

vars == <<word_list, word_connections, word_parents, built,
          start_word, target_word, bfs_result, ucs_result, astar_result, game,
          score_result, search_run, setup>>

search_vars == <<start_word, target_word, bfs_result, ucs_result, astar_result>>

graph_vars == <<word_list, word_connections, word_parents, built>>

----------------------------------------------------------------------------
(* Bounds and inputs *)

\* largest dictionary drawn
MaxDict == 5

\* how many letters, from a on, the random sample of restricted letters is drawn among
SamplePool == 3

cat == <<"c", "a", "t">>
cot == <<"c", "o", "t">>
cog == <<"c", "o", "g">>
dog == <<"d", "o", "g">>
dot == <<"d", "o", "t">>
do  == <<"d", "o">>
cold == <<"c", "o", "l", "d">>
cord == <<"c", "o", "r", "d">>
card == <<"c", "a", "r", "d">>
ward == <<"w", "a", "r", "d">>
warm == <<"w", "a", "r", "m">>
dark == <<"d", "a", "r", "k">>
light == <<"l", "i", "g", "h", "t">>
head == <<"h", "e", "a", "d">>
tail == <<"t", "a", "i", "l">>
good == <<"g", "o", "o", "d">>
evil == <<"e", "v", "i", "l">>
love == <<"l", "o", "v", "e">>
hate == <<"h", "a", "t", "e">>
life == <<"l", "i", "f", "e">>
dead == <<"d", "e", "a", "d">>
soft == <<"s", "o", "f", "t">>
hard == <<"h", "a", "r", "d">>
fast == <<"f", "a", "s", "t">>
slow == <<"s", "l", "o", "w">>
poor == <<"p", "o", "o", "r">>
rich == <<"r", "i", "c", "h">>
stone == <<"s", "t", "o", "n", "e">>
store == <<"s", "t", "o", "r", "e">>
stare == <<"s", "t", "a", "r", "e">>
crane == <<"c", "r", "a", "n", "e">>
Cot == <<"C", "o", "t">>
cab == <<"c", "a", "b">>

\* the words dictionaries and search arguments are drawn from
Universe == {cat, cot, cog, dog, dot, do}

Dictionaries == {d \in SUBSET Universe : Cardinality(d) <= MaxDict}

\* 'abcdefghijklmnopqrstuvwxyz'
Letters == <<"a", "b", "c", "d", "e", "f", "g", "h", "i", "j", "k", "l", "m",
             "n", "o", "p", "q", "r", "s", "t", "u", "v", "w", "x", "y", "z">>

UpperLetters == <<"A", "B", "C", "D", "E", "F", "G", "H", "I", "J", "K", "L", "M",
                  "N", "O", "P", "Q", "R", "S", "T", "U", "V", "W", "X", "Y", "Z">>

\* all orders a loop over the set S can take
Orderings(S) ==
    {f \in [1..Cardinality(S) -> S] : \A i, j \in 1..Cardinality(S) : i # j => f[i] # f[j]}

\* None.  The code tests paths and words by truth value only, where None, the
\* empty list and the empty string count alike, and no path or word it builds is empty.
None == <<>>

\* float('inf')
Inf == -1

----------------------------------------------------------------------------
(* str.lower *)

LowerChar(c) ==
    IF \E i \in 1..26 : UpperLetters[i] = c
    THEN Letters[CHOOSE i \in 1..26 : UpperLetters[i] = c]
    ELSE c

Lower(word) == [i \in 1..Len(word) |-> LowerChar(word[i])]

----------------------------------------------------------------------------
(* word_graph.py *)

\* the characters str.strip removes, as far as the sources at hand hold them
Whitespace == {" ", "\n", "\t", "\r"}

\* str.strip
strip(line) ==
    LET kept == {i \in 1..Len(line) : line[i] \notin Whitespace}
    IN  IF kept = {} THEN <<>>
        ELSE SubSeq(line, CHOOSE i \in kept : \A j \in kept : i <= j,
                          CHOOSE i \in kept : \A j \in kept : i >= j)

\* the word_list load_words leaves.  A source is [found, lines]: whether open()
\* finds the file, and its lines; FileNotFoundError leaves the empty set.
load_words(source) ==
    IF ~source.found THEN {}
    ELSE {Lower(strip(source.lines[i])) :
             i \in {j \in 1..Len(source.lines) : strip(source.lines[j]) # <<>>}}

\* word[:position] + new_letter + word[position+1:]
ChangedWord(word, position, new_letter) ==
    [i \in 1..Len(word) |-> IF i = position THEN new_letter ELSE word[i]]

find_similar_words(wl, word) ==
    {changed_word \in
        {ChangedWord(word, p[1], Letters[p[2]]) :
            p \in {q \in (1..Len(word)) \X (1..26) : Letters[q[2]] # word[q[1]]}} :
        changed_word \in wl}

\* one turn of the loop "for word in words": the graph after word is handled
ConnectWord(wl, g, word) ==
    LET fresh == {s \in find_similar_words(wl, word) : s \notin DOMAIN g.parents}
    IN  IF fresh = {} THEN g
        ELSE [connections |->
                 [w \in DOMAIN g.connections \cup {word} |->
                     IF w = word
                     THEN (IF word \in DOMAIN g.connections
                           THEN g.connections[word] ELSE {}) \cup fresh
                     ELSE g.connections[w]],
              parents |->
                 [w \in DOMAIN g.parents \cup fresh |->
                     IF w \in fresh THEN word ELSE g.parents[w]]]

RECURSIVE ConnectGroup(_, _, _)
\* "for word in words" over one length group, in every order of the set
ConnectGroup(wl, words, g) ==
    IF words = {} THEN {g}
    ELSE UNION {ConnectGroup(wl, words \ {word}, ConnectWord(wl, g, word)) : word \in words}

RECURSIVE ConnectGroups(_, _, _)
\* "for length, words in length_groups.items()", in every order of the groups
ConnectGroups(wl, lengths, g) ==
    IF lengths = {} THEN {g}
    ELSE UNION {UNION {ConnectGroups(wl, lengths \ {n}, h) :
                          h \in ConnectGroup(wl, {w \in wl : Len(w) = n}, g)} :
                   n \in lengths}

EmptyGraph == [connections |-> <<>>, parents |-> <<>>]

\* every graph build_word_network can leave for the dictionary wl
build_word_network(wl) == ConnectGroups(wl, {Len(w) : w \in wl}, EmptyGraph)

\* get_connected_words without "the word we came from"
get_connected_words_children_only(word) ==
    IF word \in DOMAIN word_connections THEN word_connections[word] ELSE {}

get_connected_words(word) ==
    (IF word \in DOMAIN word_connections THEN word_connections[word] ELSE {})
    \cup (IF word \in DOMAIN word_parents THEN {word_parents[word]} ELSE {})

get_neighbors(word) == get_connected_words(word)

is_valid_word(word) == Lower(word) \in word_list

word_exists(word) == is_valid_word(word)

count_words == Cardinality(word_list)

----------------------------------------------------------------------------
(* search.py *)

\* SimpleQueue: items_to_process is a list, add_item appends, get_next_item pops the head

\* SmartQueue.add_item: heappush of (priority, item_counter, item), then the counter goes up
SmartQueue_add_item(q, item, priority) ==
    [items |-> q.items \cup {[priority |-> priority, counter |-> q.counter, item |-> item]},
     counter |-> q.counter + 1]

\* the order of Python numbers with float('inf') among them
NumLess(a, b) == a # Inf /\ (b = Inf \/ a < b)

\* an order by priority in which, among equal priorities, the newest entry comes first
EntryLess_newest_first(e1, e2) ==
    \/ NumLess(e1.priority, e2.priority)
    \/ e1.priority = e2.priority /\ e1.counter > e2.counter

\* the order heapq keeps: by priority, then by item_counter
EntryLess(e1, e2) ==
    \/ NumLess(e1.priority, e2.priority)
    \/ e1.priority = e2.priority /\ e1.counter < e2.counter

\* the entry heappop removes
SmartQueue_next_entry(q) ==
    CHOOSE e \in q.items : \A o \in q.items : o = e \/ EntryLess(e, o)

EmptySmartQueue == [items |-> {}, counter |-> 0]

\* get_steps_taken counting the words of the path, not its steps
get_steps_taken_counting_words(path) == Len(path)

\* g(n)
get_steps_taken(path) == Len(path) - 1

\* h(n)
estimate_remaining_steps(current_word, target) ==
    IF Len(current_word) # Len(target) THEN Inf
    ELSE Cardinality({i \in 1..Len(current_word) : current_word[i] # target[i]})

\* f(n) = g(n) + h(n)
calculate_total_cost(steps_taken, estimated_steps) ==
    IF steps_taken = Inf \/ estimated_steps = Inf THEN Inf
    ELSE steps_taken + estimated_steps

get_path_stats(path, target) ==
    [g_cost |-> get_steps_taken(path),
     h_cost |-> estimate_remaining_steps(path[Len(path)], target),
     f_cost |-> calculate_total_cost(get_steps_taken(path),
                                     estimate_remaining_steps(path[Len(path)], target)),
     path_length |-> Len(path)]

\* the return value "None, {}"
NoPath == [path |-> None, costs |-> <<>>]

Found(path, target) == [path |-> path, costs |-> get_path_stats(path, target)]

\* the neighbours in every order, without the test "not in visited_words"
FreshOrders_unmarked(current_word, visited_words) ==
    Orderings(get_neighbors(current_word))

\* the neighbours of current_word the loop has not seen yet, in every order the set can give
FreshOrders(current_word, visited_words) ==
    Orderings({n \in get_neighbors(current_word) : n \notin visited_words})

RECURSIVE bfs_loop(_, _, _)
\* the while loop of bfs: every result it can return from this queue and visited set
bfs_loop(search_queue, visited_words, target) ==
    IF search_queue = <<>> THEN {NoPath}
    ELSE LET current_word == Head(search_queue)[1]
             current_path == Head(search_queue)[2]
         IN  IF current_word = target THEN {Found(current_path, target)}
             ELSE UNION {bfs_loop(Tail(search_queue) \o
                                     [i \in 1..Len(o) |-> <<o[i], current_path \o <<o[i]>> >>],
                                  visited_words \cup {o[i] : i \in 1..Len(o)},
                                  target) :
                            o \in FreshOrders(current_word, visited_words)}

\* bfs queueing (next_word, current_path) in place of (next_word, new_path)
bfs_stale_path(start, target) ==
    IF ~(word_exists(start) /\ word_exists(target)) THEN {NoPath}
    ELSE {IF r.path = None THEN r ELSE Found(<<start>>, target) :
             r \in bfs_loop(<< <<start, <<start>> >> >>, {start}, target)}

\* bfs without the check that both words exist
bfs_unchecked(start, target) ==
    bfs_loop(<< <<start, <<start>> >> >>, {start}, target)

bfs(start, target) ==
    IF ~(word_exists(start) /\ word_exists(target)) THEN {NoPath}
    ELSE bfs_loop(<< <<start, <<start>> >> >>, {start}, target)

RECURSIVE ucs_push(_, _, _, _)
\* the for loop of ucs over the fresh neighbours in the order o, from index i
ucs_push(q, current_path, o, i) ==
    IF i > Len(o) THEN q
    ELSE ucs_push(SmartQueue_add_item(q, <<o[i], current_path \o <<o[i]>> >>,
                                      get_steps_taken(current_path \o <<o[i]>>)),
                  current_path, o, i + 1)

RECURSIVE ucs_loop(_, _, _)
ucs_loop(search_queue, visited_words, target) ==
    IF search_queue.items = {} THEN {NoPath}
    ELSE LET e == SmartQueue_next_entry(search_queue)
             rest == [search_queue EXCEPT !.items = @ \ {e}]
             current_word == e.item[1]
             current_path == e.item[2]
         IN  IF current_word = target THEN {Found(current_path, target)}
             ELSE UNION {ucs_loop(ucs_push(rest, current_path, o, 1),
                                  visited_words \cup {o[i] : i \in 1..Len(o)},
                                  target) :
                            o \in FreshOrders(current_word, visited_words)}

\* ucs with the final "return None, {}" indented into the while loop
ucs_returns_in_loop(start, target) ==
    IF ~(word_exists(start) /\ word_exists(target)) THEN {NoPath}
    ELSE IF start = target THEN {Found(<<start>>, target)}
    ELSE {NoPath}

ucs(start, target) ==
    IF ~(word_exists(start) /\ word_exists(target)) THEN {NoPath}
    ELSE ucs_loop(SmartQueue_add_item(EmptySmartQueue, <<start, <<start>> >>, 0),
                  {start}, target)

RECURSIVE astar_push(_, _, _, _, _)
\* the for loop of astar over the fresh neighbours in the order o, from index i
astar_push(q, current_path, o, i, target) ==
    IF i > Len(o) THEN q
    ELSE astar_push(SmartQueue_add_item(q, <<o[i], current_path \o <<o[i]>> >>,
                        calculate_total_cost(get_steps_taken(current_path \o <<o[i]>>),
                                             estimate_remaining_steps(o[i], target))),
                    current_path, o, i + 1, target)

RECURSIVE astar_loop(_, _, _)
astar_loop(search_queue, visited_words, target) ==
    IF search_queue.items = {} THEN {NoPath}
    ELSE LET e == SmartQueue_next_entry(search_queue)
             rest == [search_queue EXCEPT !.items = @ \ {e}]
             current_word == e.item[1]
             current_path == e.item[2]
         IN  IF current_word = target THEN {Found(current_path, target)}
             ELSE UNION {astar_loop(astar_push(rest, current_path, o, 1, target),
                                    visited_words \cup {o[i] : i \in 1..Len(o)},
                                    target) :
                            o \in FreshOrders(current_word, visited_words)}

\* astar queueing (next_word, current_path) in place of (next_word, new_path)
astar_stale_path(start, target) ==
    IF ~(word_exists(start) /\ word_exists(target)) THEN {NoPath}
    ELSE {IF r.path = None THEN r ELSE Found(<<start>>, target) :
             r \in astar_loop(SmartQueue_add_item(EmptySmartQueue, <<start, <<start>> >>,
                                                  estimate_remaining_steps(start, target)),
                              {start}, target)}

astar(start, target) ==
    IF ~(word_exists(start) /\ word_exists(target)) THEN {NoPath}
    ELSE astar_loop(SmartQueue_add_item(EmptySmartQueue, <<start, <<start>> >>,
                                        estimate_remaining_steps(start, target)),
                    {start}, target)

----------------------------------------------------------------------------
(* Python's float: IEEE 754 binary64.  A float is [neg, digits, exp]: the     *)
(* sign, the significand as a natural number written in base 2^16 (most       *)
(* significant digit first, the empty numeral being 0) and the power of two   *)
(* it is scaled by.  Every operation is computed exactly and then rounded to  *)
(* 53 significant bits, to nearest, ties to even.  The values calculate_score *)
(* meets are far from overflow and from the subnormals.                       *)

\* the significand of a binary64 has 53 bits
Precision == 53

\* the base numerals are written in: one digit holds 16 bits
Base == 2^16

\* the numeral of a natural number below Base * Base
Numeral(n) ==
    IF n = 0 THEN <<>>
    ELSE IF n < Base THEN <<n>>
    ELSE <<n \div Base, n % Base>>

\* the number a numeral of at most two digits stands for
NumeralValue(x) ==
    IF x = <<>> THEN 0
    ELSE IF Len(x) = 1 THEN x[1]
    ELSE x[Len(x) - 1] * Base + x[Len(x)]

\* the numeral without its leading zeros
Strip(x) ==
    IF \A i \in 1..Len(x) : x[i] = 0 THEN <<>>
    ELSE SubSeq(x, CHOOSE i \in 1..Len(x) : x[i] # 0 /\ \A j \in 1..(i - 1) : x[j] = 0,
                Len(x))

Zeros(n) == [i \in 1..n |-> 0]

\* x with leading zeros, n digits long
Padded(x, n) == Zeros(n - Len(x)) \o x

\* the number of bits of a digit
DigitBits(d) == IF d = 0 THEN 0 ELSE CHOOSE n \in 1..16 : 2^(n - 1) <= d /\ d < 2^n

\* the number of bits of the number x stands for
BitLength(x) ==
    LET s == Strip(x)
    IN  IF s = <<>> THEN 0 ELSE 16 * (Len(s) - 1) + DigitBits(s[1])

\* bit j of x, bit 0 being the lowest
BitOf(x, j) ==
    IF j \div 16 >= Len(x) THEN 0
    ELSE (x[Len(x) - (j \div 16)] \div 2^(j % 16)) % 2

\* x has a bit set below bit j
AnyBitBelow(x, j) ==
    \/ \E i \in 1..Len(x) : Len(x) - i < j \div 16 /\ x[i] # 0
    \/ j \div 16 < Len(x) /\ x[Len(x) - (j \div 16)] % 2^(j % 16) # 0

RECURSIVE TimesSmall(_, _, _)
\* x times the natural number c, plus carry (c and carry below 2^15)
TimesSmall(x, c, carry) ==
    IF x = <<>> THEN Numeral(carry)
    ELSE LET t == x[Len(x)] * c + carry
         IN  Append(TimesSmall(SubSeq(x, 1, Len(x) - 1), c, t \div Base), t % Base)

\* x times 2^s
ShiftLeft(x, s) == TimesSmall(x, 2^(s % 16), 0) \o Zeros(s \div 16)

\* x divided by 2^s, rounded down
ShiftRight(x, s) ==
    LET y == SubSeq(x, 1, Len(x) - (s \div 16))
        r == s % 16
    IN  [i \in 1..Len(y) |->
            (y[i] \div 2^r) + (IF i = 1 THEN 0 ELSE (y[i - 1] % 2^r) * 2^(16 - r))]

RECURSIVE AddNumerals(_, _, _)
\* x + y + carry, for numerals of equal length
AddNumerals(x, y, carry) ==
    IF x = <<>> THEN Numeral(carry)
    ELSE LET t == x[Len(x)] + y[Len(y)] + carry
         IN  Append(AddNumerals(SubSeq(x, 1, Len(x) - 1), SubSeq(y, 1, Len(y) - 1),
                                t \div Base),
                    t % Base)

RECURSIVE SubNumerals(_, _, _)
\* x - y - borrow, for numerals of equal length with x >= y
SubNumerals(x, y, borrow) ==
    IF x = <<>> THEN <<>>
    ELSE LET t == x[Len(x)] - y[Len(y)] - borrow
         IN  Append(SubNumerals(SubSeq(x, 1, Len(x) - 1), SubSeq(y, 1, Len(y) - 1),
                                IF t < 0 THEN 1 ELSE 0),
                    IF t < 0 THEN t + Base ELSE t)

\* x < y, for numerals of equal length
NumeralLess(x, y) ==
    \E i \in 1..Len(x) : x[i] < y[i] /\ \A j \in 1..(i - 1) : x[j] = y[j]

\* the float nearest to (-1)^neg * digits * 2^exp, where sticky tells that the
\* exact value lies above digits * 2^exp by less than one unit of the last bit
RoundToFloat(neg, digits, exp, sticky) ==
    LET x == Strip(digits)
        drop == BitLength(x) - Precision
    IN  IF drop <= 0
        THEN [neg |-> neg /\ x # <<>>, digits |-> x, exp |-> exp]
        ELSE LET kept == ShiftRight(x, drop)
                 guard == BitOf(x, drop - 1)
                 rest == sticky \/ AnyBitBelow(x, drop - 1)
                 up == guard = 1 /\ (rest \/ BitOf(kept, 0) = 1)
             IN  [neg |-> neg,
                  digits |-> IF up
                             THEN Strip(AddNumerals(kept, Padded(<<1>>, Len(kept)), 0))
                             ELSE Strip(kept),
                  exp |-> exp + drop]

\* int -> float; the integers met here are exact as floats
FloatOfInt(n) ==
    [neg |-> n < 0, digits |-> Numeral(IF n < 0 THEN -n ELSE n), exp |-> 0]

RECURSIVE DivideFrom(_, _, _, _)
\* long division by an int below 2^15: the digits of the quotient so far, the
\* remainder, and the digits of the dividend still to bring down
DivideFrom(quotient, rem, dividend, divisor) ==
    IF dividend = <<>> THEN [quotient |-> quotient, rem |-> rem]
    ELSE LET t == rem * Base + Head(dividend)
         IN  DivideFrom(Append(quotient, t \div divisor), t % divisor,
                        Tail(dividend), divisor)

\* the float n / d of two ints, n >= 0 and d > 0: the quotient is taken to 96
\* binary places, more than the 53 bits and the guard bit need, and rounded
FloatDivide(n, d) ==
    LET q == DivideFrom(<<>>, 0, Numeral(n) \o Zeros(6), d)
    IN  RoundToFloat(FALSE, q.quotient, -96, q.rem # 0)

\* the float c * x for an int c with 0 <= c < 2^15
FloatTimesInt(c, x) ==
    RoundToFloat(x.neg, TimesSmall(x.digits, c, 0), x.exp, FALSE)

\* the float x * y, for y with a significand below 2^15
FloatTimes(x, y) ==
    RoundToFloat(x.neg # y.neg, TimesSmall(x.digits, NumeralValue(y.digits), 0),
                 x.exp + y.exp, FALSE)

\* the numerals of x and y brought to one scale and one length
Aligned(x, y) ==
    LET e == IF x.exp < y.exp THEN x.exp ELSE y.exp
        xd == ShiftLeft(x.digits, x.exp - e)
        yd == ShiftLeft(y.digits, y.exp - e)
        n == IF Len(xd) > Len(yd) THEN Len(xd) ELSE Len(yd)
    IN  [x |-> Padded(xd, n), y |-> Padded(yd, n), exp |-> e]

\* x < y as numbers
FloatLess(x, y) ==
    LET a == Aligned(x, y)
    IN  IF x.neg # y.neg THEN x.neg
        ELSE IF x.neg THEN NumeralLess(a.y, a.x)
        ELSE NumeralLess(a.x, a.y)

\* the float x + y
FloatPlus(x, y) ==
    LET a == Aligned(x, y)
    IN  IF x.neg = y.neg
        THEN RoundToFloat(x.neg, AddNumerals(a.x, a.y, 0), a.exp, FALSE)
        ELSE IF NumeralLess(a.x, a.y)
        THEN RoundToFloat(y.neg, SubNumerals(a.y, a.x, 0), a.exp, FALSE)
        ELSE RoundToFloat(x.neg, SubNumerals(a.x, a.y, 0), a.exp, FALSE)

\* int(x): the integer part, rounding toward zero
IntOfFloat(x) ==
    LET whole == IF x.exp >= 0 THEN ShiftLeft(x.digits, x.exp)
                 ELSE ShiftRight(x.digits, -x.exp)
    IN  IF x.neg THEN -NumeralValue(Strip(whole)) ELSE NumeralValue(Strip(whole))

----------------------------------------------------------------------------
(* game.py *)

\* the difficulty names, as strings of characters
beginner == <<"b", "e", "g", "i", "n", "n", "e", "r">>
advanced == <<"a", "d", "v", "a", "n", "c", "e", "d">>
challenge == <<"c", "h", "a", "l", "l", "e", "n", "g", "e">>

\* WordLadderGame.__init__
NewGame ==
    [current_word |-> None,
     target_word |-> None,
     moves |-> <<>>,
     best_path |-> None,
     difficulty |-> beginner,
     score |-> 0,
     banned_words |-> {},
     move_limit |-> 10,
     selected_algorithm |-> "A*",
     restricted_letters |-> {},
     min_word_length |-> 3,
     max_word_length |-> 7]

\* what initialize_game returns and leaves behind.  After load_words it calls
\* self.word_graph.get_word_count() (line 40); WordGraph has no attribute of that
\* name (its counter is count_words), the AttributeError is caught at line 49
\* and False is returned: build_graph and the SearchAlgorithms of line 47 are
\* never reached.
initialize_game(source) ==
    [ok |-> FALSE, word_list |-> load_words(source), search_ready |-> FALSE]

\* is_word_valid with the length tests written <= and >=
is_word_valid_tight_band(g, word) ==
    IF word = None THEN FALSE
    ELSE LET w == Lower(word)
         IN  IF ~word_exists(w) THEN FALSE
             ELSE IF w \in g.banned_words THEN FALSE
             ELSE IF Len(w) <= g.min_word_length \/ Len(w) >= g.max_word_length THEN FALSE
             ELSE IF g.difficulty = challenge /\ \E i \in 1..Len(w) : w[i] \in g.restricted_letters
                  THEN FALSE
             ELSE TRUE

is_word_valid(g, word) ==
    IF word = None THEN FALSE
    ELSE LET w == Lower(word)
         IN  IF ~word_exists(w) THEN FALSE
             ELSE IF w \in g.banned_words THEN FALSE
             ELSE IF Len(w) < g.min_word_length \/ Len(w) > g.max_word_length THEN FALSE
             ELSE IF g.difficulty = challenge /\ \E i \in 1..Len(w) : w[i] \in g.restricted_letters
                  THEN FALSE
             ELSE TRUE

\* is_valid_move without its last line, the test against get_neighbors
is_valid_move_unlinked(g, word) ==
    IF word = None THEN FALSE
    ELSE IF Len(g.moves) >= g.move_limit THEN FALSE
    ELSE is_word_valid(g, Lower(word))

is_valid_move(g, word) ==
    IF word = None THEN FALSE
    ELSE IF Len(g.moves) >= g.move_limit THEN FALSE
    ELSE IF ~is_word_valid(g, Lower(word)) THEN FALSE
    ELSE Lower(word) \in get_neighbors(g.current_word)

get_current_moves(g) == Len(g.moves) - 1

get_remaining_moves(g) == g.move_limit - get_current_moves(g)

\* start_new_game without the test "if not path: return False"
start_new_game_without_path(g, start, target) ==
    IF ~(is_word_valid(g, Lower(start)) /\ is_word_valid(g, Lower(target)))
    THEN {[ok |-> FALSE, game |-> g]}
    ELSE {[ok |-> TRUE,
           game |-> [g EXCEPT !.current_word = Lower(start),
                              !.target_word = Lower(target),
                              !.moves = <<Lower(start)>>,
                              !.best_path = r.path,
                              !.score = 0]] :
             r \in astar(Lower(start), Lower(target))}

\* start_new_game with "self.moves.append(start_word)" in place of "self.moves = [start_word]"
start_new_game_keeps_moves(g, start, target) ==
    IF ~(is_word_valid(g, Lower(start)) /\ is_word_valid(g, Lower(target)))
    THEN {[ok |-> FALSE, game |-> g]}
    ELSE {IF r.path = None
          THEN [ok |-> FALSE, game |-> g]
          ELSE [ok |-> TRUE,
                game |-> [g EXCEPT !.current_word = Lower(start),
                                   !.target_word = Lower(target),
                                   !.moves = Append(@, Lower(start)),
                                   !.best_path = r.path,
                                   !.score = 0]] :
             r \in astar(Lower(start), Lower(target))}

\* start_new_game assigning the two words before it looks for a path
start_new_game_words_first(g, start, target) ==
    IF start = None \/ target = None
    THEN {[ok |-> FALSE, game |-> g]}
    ELSE IF ~(is_word_valid(g, Lower(start)) /\ is_word_valid(g, Lower(target)))
    THEN {[ok |-> FALSE, game |-> g]}
    ELSE {IF r.path = None
          THEN [ok |-> FALSE,
                game |-> [g EXCEPT !.current_word = Lower(start),
                                   !.target_word = Lower(target)]]
          ELSE [ok |-> TRUE,
                game |-> [g EXCEPT !.current_word = Lower(start),
                                   !.target_word = Lower(target),
                                   !.moves = <<Lower(start)>>,
                                   !.best_path = r.path,
                                   !.score = 0]] :
             r \in astar(Lower(start), Lower(target))}

\* every outcome of start_new_game: the value returned and the fields left behind.
\* The body is one try: an exception (None.lower() for a word that is None) is
\* caught at line 389 and False is returned with nothing assigned yet.
start_new_game(g, start, target) ==
    IF start = None \/ target = None
    THEN {[ok |-> FALSE, game |-> g]}
    ELSE IF ~(is_word_valid(g, Lower(start)) /\ is_word_valid(g, Lower(target)))
    THEN {[ok |-> FALSE, game |-> g]}
    ELSE {IF r.path = None
          THEN [ok |-> FALSE, game |-> g]
          ELSE [ok |-> TRUE,
                game |-> [g EXCEPT !.current_word = Lower(start),
                                   !.target_word = Lower(target),
                                   !.moves = <<Lower(start)>>,
                                   !.best_path = r.path,
                                   !.score = 0]] :
             r \in astar(Lower(start), Lower(target))}

\* make_move that checks and stores the word as typed, without "new_word.lower()"
make_move_unlowered(g, new_word) ==
    IF ~is_valid_move(g, new_word)
    THEN [ok |-> FALSE, game |-> g]
    ELSE [ok |-> TRUE,
          game |-> [g EXCEPT !.current_word = new_word,
                             !.moves = Append(@, new_word)]]

\* the value make_move returns and the fields it leaves behind.  None.lower()
\* raises inside the try and line 403 catches it: False, nothing assigned.
make_move(g, new_word) ==
    IF ~is_valid_move(g, Lower(new_word))
    THEN [ok |-> FALSE, game |-> g]
    ELSE [ok |-> TRUE,
          game |-> [g EXCEPT !.current_word = Lower(new_word),
                             !.moves = Append(@, Lower(new_word))]]

\* find_valid_word_pair reads self.word_graph.words (line 119).  WordGraph has
\* no attribute of that name (the dictionary is word_list), so the comprehension
\* raises AttributeError inside the try, and line 145 catches it: None is returned.
find_valid_word_pair(g, min_len, max_len, min_path, max_path) == None

reliable_pairs ==
    << <<cat, dog>>, <<cold, warm>>, <<dark, light>>, <<head, tail>>, <<good, evil>>,
       <<love, hate>>, <<life, dead>>, <<soft, hard>>, <<fast, slow>>, <<poor, rich>> >>

\* get_fallback_word_pair ends by raising: past the reliable pairs it also reads
\* self.word_graph.words (line 176), outside any try of its own
Raised == [raised |-> TRUE, pair |-> <<>>]

RECURSIVE fallback_from(_, _)
\* the loop over reliable_pairs from index i on: every pair it can return
fallback_from(g, i) ==
    IF i > Len(reliable_pairs) THEN {Raised}
    ELSE LET start == reliable_pairs[i][1]
             target == reliable_pairs[i][2]
         IN  IF /\ word_exists(start) /\ word_exists(target)
                /\ start \notin g.banned_words /\ target \notin g.banned_words
             THEN UNION {IF r.path # None
                         THEN {[raised |-> FALSE, pair |-> <<start, target>>]}
                         ELSE fallback_from(g, i + 1) :
                            r \in astar(start, target)}
             ELSE fallback_from(g, i + 1)

get_fallback_word_pair(g) == fallback_from(g, 1)

get_word_pair_for_difficulty(g) ==
    LET word_pair ==
            IF g.difficulty = beginner THEN find_valid_word_pair(g, 3, 4, 3, 5)
            ELSE IF g.difficulty = advanced THEN find_valid_word_pair(g, 4, 6, 5, 8)
            ELSE find_valid_word_pair(g, 5, 7, 6, 10)
    IN  IF word_pair = None THEN get_fallback_word_pair(g)
        ELSE {[raised |-> FALSE, pair |-> word_pair]}

RECURSIVE attempts_from(_, _)
\* the loop returning True after start_new_game whatever start_new_game returned
attempts_from_trusting(g, attempt) ==
    IF attempt >= 3 THEN {[ok |-> FALSE, game |-> g, attempts |-> attempt]}
    ELSE UNION {IF p.raised THEN attempts_from(g, attempt + 1)
                ELSE {[ok |-> TRUE, game |-> o.game, attempts |-> attempt + 1] :
                         o \in start_new_game(g, p.pair[1], p.pair[2])} :
                   p \in get_word_pair_for_difficulty(g)}

\* "for attempt in range(3)" from the given attempt on: every outcome, with the
\* number of turns of the loop that were begun.  An exception inside a turn is
\* caught at line 206 and the loop goes on.
attempts_from(g, attempt) ==
    IF attempt >= 3 THEN {[ok |-> FALSE, game |-> g, attempts |-> attempt]}
    ELSE UNION {IF p.raised THEN attempts_from(g, attempt + 1)
                ELSE UNION {IF o.ok
                            THEN {[ok |-> TRUE, game |-> o.game, attempts |-> attempt + 1]}
                            ELSE attempts_from(g, attempt + 1) :
                               o \in start_new_game(g, p.pair[1], p.pair[2])} :
                   p \in get_word_pair_for_difficulty(g)}

start_new_game_for_difficulty(g) == attempts_from(g, 0)

\* random.sample('abcdefghijklmnopqrstuvwxyz', 3), drawn among the first SamplePool letters
LetterSamples ==
    {s \in SUBSET {Letters[i] : i \in 1..SamplePool} : Cardinality(s) = 3}

\* the branches of set_difficulty with advanced leaving restricted_letters alone
profiles_keeps_letters(g, level) ==
    LET d == Lower(level)
    IN  IF d = beginner
        THEN {[g EXCEPT !.difficulty = d, !.move_limit = 10,
                        !.min_word_length = 3, !.max_word_length = 4,
                        !.banned_words = {}, !.restricted_letters = {}]}
        ELSE IF d = advanced
        THEN {[g EXCEPT !.difficulty = d, !.move_limit = 15,
                        !.min_word_length = 4, !.max_word_length = 6,
                        !.banned_words = {}]}
        ELSE IF d = challenge
        THEN {[g EXCEPT !.difficulty = d, !.move_limit = 12,
                        !.min_word_length = 5, !.max_word_length = 7,
                        !.restricted_letters = s] : s \in LetterSamples}
        ELSE {[g EXCEPT !.difficulty = d]}

\* the fields after the branch of set_difficulty for the level (lines 64 to 103)
profiles(g, level) ==
    LET d == Lower(level)
    IN  IF d = beginner
        THEN {[g EXCEPT !.difficulty = d, !.move_limit = 10,
                        !.min_word_length = 3, !.max_word_length = 4,
                        !.banned_words = {}, !.restricted_letters = {}]}
        ELSE IF d = advanced
        THEN {[g EXCEPT !.difficulty = d, !.move_limit = 15,
                        !.min_word_length = 4, !.max_word_length = 6,
                        !.banned_words = {}, !.restricted_letters = {}]}
        ELSE IF d = challenge
        THEN LET g1 == [g EXCEPT !.difficulty = d, !.move_limit = 12,
                                 !.min_word_length = 5, !.max_word_length = 7]
                 word_pair == find_valid_word_pair(g1, 5, 7, 6, 10)
             IN  \* "if word_pair:" fails on None, banned_words stays as it was
                 {[g1 EXCEPT !.restricted_letters = s] : s \in LetterSamples}
        ELSE {[g EXCEPT !.difficulty = d]}

set_difficulty(g, level) ==
    UNION {start_new_game_for_difficulty(g1) : g1 \in profiles(g, level)}

\* the dictionary "algorithms" of get_algorithm_comparison, in the order it is written
algorithms == <<"BFS", "UCS", "A*">>

\* the search a name stands for: the values of "algorithms" (lines 258 to 262)
\* and the getattr of get_hint (lines 284 and 285)
run_algorithm(name, start, target) ==
    IF name = "BFS" THEN bfs(start, target)
    ELSE IF name = "UCS" THEN ucs(start, target)
    ELSE astar(start, target)

\* every mapping get_algorithm_comparison can return: name -> [path, costs],
\* for the searches that found a path
get_algorithm_comparison(g) ==
    IF g.current_word = None \/ g.target_word = None THEN {<<>>}
    ELSE {[name \in {n \in {"BFS", "UCS", "A*"} : run[n].path # None} |-> run[name]] :
             run \in {f \in [{"BFS", "UCS", "A*"} ->
                                UNION {run_algorithm(n, g.current_word, g.target_word) :
                                          n \in {"BFS", "UCS", "A*"}}] :
                         \A n \in {"BFS", "UCS", "A*"} :
                            f[n] \in run_algorithm(n, g.current_word, g.target_word)}}

\* min(valid_paths, key=len): the first of the shortest, in the order of "algorithms"
shortest_available(algorithm_paths) ==
    LET i == CHOOSE i \in 1..Len(algorithms) :
                 /\ algorithms[i] \in DOMAIN algorithm_paths
                 /\ \A j \in 1..Len(algorithms) :
                       algorithms[j] \in DOMAIN algorithm_paths =>
                          \/ Len(algorithm_paths[algorithms[i]].path)
                                < Len(algorithm_paths[algorithms[j]].path)
                          \/ /\ Len(algorithm_paths[algorithms[i]].path)
                                   = Len(algorithm_paths[algorithms[j]].path)
                             /\ i <= j
    IN  algorithm_paths[algorithms[i]].path

\* every path calculate_best_path can return
calculate_best_path(g) ==
    IF g.current_word = None \/ g.target_word = None THEN {None}
    ELSE {IF g.selected_algorithm \in DOMAIN algorithm_paths
          THEN algorithm_paths[g.selected_algorithm].path
          ELSE IF DOMAIN algorithm_paths = {} THEN None
          ELSE shortest_available(algorithm_paths) :
             algorithm_paths \in get_algorithm_comparison(g)}

\* set_algorithm that stores the name and leaves best_path as it was
set_algorithm_keeps_path(g, algorithm) ==
    IF algorithm \notin {"BFS", "UCS", "A*"} THEN {g}
    ELSE {[g EXCEPT !.selected_algorithm = algorithm]}

\* the fields every run of set_algorithm can leave behind
set_algorithm(g, algorithm) ==
    IF algorithm \notin {"BFS", "UCS", "A*"} THEN {g}
    ELSE LET g1 == [g EXCEPT !.selected_algorithm = algorithm]
         IN  IF g1.current_word # None /\ g1.target_word # None
             THEN {[g1 EXCEPT !.best_path = p] : p \in calculate_best_path(g1)}
             ELSE {g1}

\* self.best_path.index(self.current_word): the first place of the word, 0-based;
\* -1 stands for the ValueError
index_of(path, word) ==
    IF \E i \in 1..Len(path) : path[i] = word
    THEN (CHOOSE i \in 1..Len(path) :
             path[i] = word /\ \A j \in 1..(i - 1) : path[j] # word) - 1
    ELSE -1

\* the end of get_hint from "if current_index >= len(self.best_path) - 1" on.
\* Past that test the method reads self.search.h_cost (line 301); SearchAlgorithms
\* has no attribute of that name (its heuristic is estimate_remaining_steps), and
\* get_hint has no try around it: the AttributeError leaves the method.
hint_from(g, current_index) ==
    IF current_index >= Len(g.best_path) - 1
    THEN [raised |-> FALSE, word |-> None,
          message |-> "you're already at the target!", game |-> g]
    ELSE [raised |-> TRUE, word |-> None, message |-> "", game |-> g]

\* every outcome of get_hint: an exception or the pair returned, and the fields left behind
get_hint(g) ==
    IF g.best_path = None
    THEN {[raised |-> FALSE, word |-> None, message |-> "no solution exists!", game |-> g]}
    ELSE IF index_of(g.best_path, g.current_word) # -1
    THEN {hint_from(g, index_of(g.best_path, g.current_word))}
    ELSE IF g.current_word = None
    THEN \* the search's word_exists calls None.lower(): AttributeError
         {[raised |-> TRUE, word |-> None, message |-> "", game |-> g]}
    ELSE {IF r.path = None
          THEN [raised |-> FALSE, word |-> None,
                message |-> "can't find a path from here!", game |-> g]
          ELSE hint_from([g EXCEPT !.best_path = r.path], 0) :
             r \in run_algorithm(g.selected_algorithm, g.current_word, g.target_word)}

\* what is_solved returns, and the fields after it: it only compares
is_solved(g) == [ok |-> g.current_word = g.target_word, game |-> g]

\* the dictionary "multipliers" with its default: 1.0, 1.5 and 2.0 as floats
multipliers_get(difficulty) ==
    IF difficulty = advanced THEN [neg |-> FALSE, digits |-> <<3>>, exp |-> -1]
    ELSE IF difficulty = challenge THEN [neg |-> FALSE, digits |-> <<1>>, exp |-> 1]
    ELSE [neg |-> FALSE, digits |-> <<1>>, exp |-> 0]

\* calculate_score whose bonus is 100 for each move made
calculate_score_paid_per_move(g) ==
    IF g.best_path = None THEN 0
    ELSE LET optimal_moves == Len(g.best_path) - 1
             actual_moves == Len(g.moves) - 1
         IN  IF actual_moves = 0 THEN 0
             ELSE LET ratio == FloatTimesInt(1000, FloatDivide(optimal_moves, actual_moves))
                      base_score == IF FloatLess(FloatOfInt(1000), ratio)
                                    THEN FloatOfInt(1000) ELSE ratio
                      move_bonus == actual_moves * 100
                  IN  IntOfFloat(FloatTimes(FloatPlus(base_score, FloatOfInt(move_bonus)),
                                            multipliers_get(g.difficulty)))

\* the int calculate_score returns (it stores nothing).  g.moves holds the start
\* word whenever best_path is set, so actual_moves is not negative.
calculate_score(g) ==
    IF g.best_path = None THEN 0
    ELSE LET optimal_moves == Len(g.best_path) - 1
             actual_moves == Len(g.moves) - 1
         IN  IF actual_moves = 0 THEN 0
             ELSE LET remaining_moves == g.move_limit - actual_moves
                      ratio == FloatTimesInt(1000, FloatDivide(optimal_moves, actual_moves))
                      \* min(ratio, 1000) gives 1000 only when 1000 < ratio
                      base_score == IF FloatLess(FloatOfInt(1000), ratio)
                                    THEN FloatOfInt(1000) ELSE ratio
                      move_bonus == remaining_moves * 100
                  IN  IntOfFloat(FloatTimes(FloatPlus(base_score, FloatOfInt(move_bonus)),
                                            multipliers_get(g.difficulty)))

get_minimum_moves(g) == IF g.best_path # None THEN Len(g.best_path) - 1 ELSE 0

----------------------------------------------------------------------------
(* The state machine: a dictionary is loaded, the network is built, and   *)
(* the three searches are run on one pair of words.                       *)

\* ran: the search has been called; path, costs: the pair it returned
NotRun == [ran |-> FALSE, path |-> None, costs |-> <<>>]

Returned(result) == [ran |-> TRUE, path |-> result.path, costs |-> result.costs]

\* called: calculate_score has been called; value: the int it returned
NotCalled == [called |-> FALSE, value |-> 0]

\* no search is under way
NoRun == [algorithm |-> "none"]

\* initialize_game has not been called and no source is at hand
NoSetup == [called |-> FALSE]

Init ==
    /\ word_list \in Dictionaries
    /\ word_connections = <<>>
    /\ word_parents = <<>>
    /\ built = FALSE
    /\ start_word \in Universe
    /\ target_word \in Universe
    /\ bfs_result = NotRun
    /\ ucs_result = NotRun
    /\ astar_result = NotRun
    /\ game = NewGame
    /\ score_result = NotCalled
    /\ search_run = NoRun
    /\ setup = NoSetup

BuildWordNetwork ==
    /\ ~built
    /\ \E g \in build_word_network(word_list) :
          /\ word_connections' = g.connections
          /\ word_parents' = g.parents
    /\ built' = TRUE
    /\ UNCHANGED <<word_list, search_vars, game, score_result, search_run, setup>>

Bfs ==
    /\ built
    /\ \E r \in bfs(start_word, target_word) : bfs_result' = Returned(r)
    /\ UNCHANGED <<graph_vars, start_word, target_word, ucs_result, astar_result, game,
                   score_result, search_run, setup>>

Ucs ==
    /\ built
    /\ \E r \in ucs(start_word, target_word) : ucs_result' = Returned(r)
    /\ UNCHANGED <<graph_vars, start_word, target_word, bfs_result, astar_result, game,
                   score_result, search_run, setup>>

Astar ==
    /\ built
    /\ \E r \in astar(start_word, target_word) : astar_result' = Returned(r)
    /\ UNCHANGED <<graph_vars, start_word, target_word, bfs_result, ucs_result, game,
                   score_result, search_run, setup>>

Next == BuildWordNetwork \/ Bfs \/ Ucs \/ Astar

Spec == Init /\ [][Next]_vars

----------------------------------------------------------------------------
(* The game session.  It starts with the dictionary loaded, the network     *)
(* built and the search engine attached (word_graph.py:13, word_graph.py:37 *)
(* and game.py:47), and with the fields __init__ gives.                     *)

\* the dictionary a session is played on: a chain from cat to dog, the first of
\* the reliable pairs, two five-letter neighbours, and a five-letter word apart
GameDictionary == {cat, cot, cog, dog, stone, store, crane}

\* the words handed to make_move, is_word_valid and is_valid_move
GameInputs == GameDictionary \cup {Cot, cab, None}

\* the pairs of words handed to start_new_game
GamePairs ==
    {<<cat, dog>>, <<cat, cog>>, <<cog, cog>>, <<Cot, dog>>, <<stone, store>>,
     <<stone, crane>>, <<cab, cat>>, <<None, cat>>}

\* the names handed to set_difficulty
Levels == {beginner, <<"A", "d", "v", "a", "n", "c", "e", "d">>, challenge,
           <<"e", "x", "p", "e", "r", "t">>}

GameInit ==
    /\ word_list = GameDictionary
    /\ \E g \in build_word_network(word_list) :
          /\ word_connections = g.connections
          /\ word_parents = g.parents
    /\ built = TRUE
    /\ start_word = None
    /\ target_word = None
    /\ bfs_result = NotRun
    /\ ucs_result = NotRun
    /\ astar_result = NotRun
    /\ game = NewGame
    /\ score_result = NotCalled
    /\ search_run = NoRun
    /\ setup = NoSetup

SetDifficulty ==
    /\ \E level \in Levels : \E o \in set_difficulty(game, level) : game' = o.game
    /\ UNCHANGED <<graph_vars, search_vars, score_result, search_run, setup>>

StartNewGame ==
    /\ \E p \in GamePairs :
          \E o \in start_new_game(game, p[1], p[2]) : game' = o.game
    /\ UNCHANGED <<graph_vars, search_vars, score_result, search_run, setup>>

MakeMove ==
    /\ \E new_word \in GameInputs : game' = make_move(game, new_word).game
    /\ UNCHANGED <<graph_vars, search_vars, score_result, search_run, setup>>

\* the names handed to set_algorithm
AlgorithmInputs == {"BFS", "UCS", "A*", "DFS"}

SetAlgorithm(names) ==
    /\ \E algorithm \in names : game' \in set_algorithm(game, algorithm)
    /\ UNCHANGED <<graph_vars, search_vars, score_result, search_run, setup>>

GetHint ==
    /\ \E o \in get_hint(game) : game' = o.game
    /\ UNCHANGED <<graph_vars, search_vars, score_result, search_run, setup>>

\* is_solved only compares: it returns and every field stays
IsSolved ==
    /\ game' = is_solved(game).game
    /\ UNCHANGED <<graph_vars, search_vars, score_result, search_run, setup>>

GameNext == SetDifficulty \/ StartNewGame \/ MakeMove

SessionNext ==
    StartNewGame \/ MakeMove \/ SetAlgorithm(AlgorithmInputs) \/ GetHint \/ IsSolved

GameSpec == GameInit /\ [][GameNext]_vars

\* a session under the profile __init__ gives, with the algorithm switched and hints asked
SessionSpec == GameInit /\ [][SessionNext]_vars

\* every operation that changes the session, the algorithm switched between A*
\* (set at the start), UCS and a name that is refused
PlayNext ==
    \/ SetDifficulty
    \/ StartNewGame
    \/ MakeMove
    \/ SetAlgorithm({"UCS", "DFS"})
    \/ GetHint

PlaySpec == GameInit /\ [][PlayNext]_vars

----------------------------------------------------------------------------
(* Scoring.  calculate_score reads best_path, moves, move_limit and          *)
(* difficulty; it is called on games in play drawn over all of these.        *)

\* a dictionary whose four-letter words form a chain from cold to warm
ScoreDictionary == {cold, cord, card, ward, warm}

\* the list moves after the player has gone to and fro between start and next
\* for played moves
ToAndFro(start, next, played) ==
    [i \in 1..(played + 1) |-> IF i % 2 = 1 THEN start ELSE next]

\* the games in play on the built graph: start_new_game(start, target) has
\* succeeded under the profile of some level and the player has moved to and fro
\* since.  A game started under advanced lasts up to move_limit - 1 = 14 moves;
\* set_difficulty("challenge") then changes the profile and keeps the game, as
\* no four-letter pair passes is_word_valid under challenge.
GamesInPlay ==
    {[p EXCEPT !.current_word = moves[Len(moves)],
               !.target_word = path[Len(path)],
               !.moves = moves,
               !.best_path = path] :
        p \in UNION {profiles(NewGame, level) : level \in Levels},
        path \in {r.path : r \in UNION {astar(cold, t) : t \in word_list}} \ {None},
        moves \in {ToAndFro(cold, cord, played) : played \in 0..14}}

ScoreInit ==
    /\ word_list = ScoreDictionary
    /\ \E g \in build_word_network(word_list) :
          /\ word_connections = g.connections
          /\ word_parents = g.parents
    /\ built = TRUE
    /\ start_word = None
    /\ target_word = None
    /\ bfs_result = NotRun
    /\ ucs_result = NotRun
    /\ astar_result = NotRun
    /\ game \in {g \in GamesInPlay :
                    /\ Len(g.moves) > 1 => cord \in get_neighbors(cold)
                    /\ \/ Len(g.moves) <= g.move_limit
                       \/ g.difficulty = challenge}
    /\ score_result = NotCalled
    /\ search_run = NoRun
    /\ setup = NoSetup

CalculateScore ==
    /\ score_result' = [called |-> TRUE, value |-> calculate_score(game)]
    /\ UNCHANGED <<graph_vars, search_vars, game, search_run, setup>>

ScoreNext == CalculateScore

ScoreSpec == ScoreInit /\ [][ScoreNext]_vars

----------------------------------------------------------------------------
(* A search followed one turn of its while loop at a time.  search_run holds  *)
(* the locals of bfs, ucs or astar: search_queue and visited_words; and, for  *)
(* the claims about the frontier, the words handed to add_item in the order   *)
(* of the calls (added) and the number of turns of the loop begun (turns).    *)

\* the lines of a search before its while loop
begin_search(algorithm, start, target) ==
    IF ~(word_exists(start) /\ word_exists(target))
    THEN [algorithm |-> algorithm, search_queue |-> <<>>, visited_words |-> {},
          added |-> <<>>, turns |-> 0, returned |-> TRUE, result |-> NoPath]
    ELSE [algorithm |-> algorithm,
          search_queue |->
              IF algorithm = "BFS" THEN << <<start, <<start>> >> >>
              ELSE SmartQueue_add_item(EmptySmartQueue, <<start, <<start>> >>,
                       IF algorithm = "UCS" THEN 0
                       ELSE estimate_remaining_steps(start, target)),
          visited_words |-> {start},
          added |-> <<start>>, turns |-> 0, returned |-> FALSE, result |-> NoPath]

\* search_queue.is_empty()
is_empty(run) ==
    IF run.algorithm = "BFS" THEN run.search_queue = <<>>
    ELSE run.search_queue.items = {}

\* one test of the while condition and, if the queue holds an item, one turn of
\* the loop: every state of the locals it can leave
search_turn(run, target) ==
    IF is_empty(run) THEN {[run EXCEPT !.returned = TRUE, !.result = NoPath]}
    ELSE LET q == run.search_queue
             item == IF run.algorithm = "BFS" THEN Head(q)
                     ELSE SmartQueue_next_entry(q).item
             rest == IF run.algorithm = "BFS" THEN Tail(q)
                     ELSE [q EXCEPT !.items = @ \ {SmartQueue_next_entry(q)}]
             current_word == item[1]
             current_path == item[2]
         IN  IF current_word = target
             THEN {[run EXCEPT !.search_queue = rest, !.turns = @ + 1,
                               !.returned = TRUE,
                               !.result = Found(current_path, target)]}
             ELSE {[run EXCEPT
                       !.search_queue =
                           IF run.algorithm = "BFS"
                           THEN rest \o [i \in 1..Len(o) |->
                                            <<o[i], current_path \o <<o[i]>> >>]
                           ELSE IF run.algorithm = "UCS"
                           THEN ucs_push(rest, current_path, o, 1)
                           ELSE astar_push(rest, current_path, o, 1, target),
                       !.visited_words = @ \cup {o[i] : i \in 1..Len(o)},
                       !.added = @ \o o,
                       !.turns = @ + 1] :
                     o \in FreshOrders(current_word, run.visited_words)}

TurnInit ==
    /\ word_list \in Dictionaries
    /\ \E g \in build_word_network(word_list) :
          /\ word_connections = g.connections
          /\ word_parents = g.parents
    /\ built = TRUE
    /\ start_word \in Universe
    /\ target_word \in Universe
    /\ bfs_result = NotRun
    /\ ucs_result = NotRun
    /\ astar_result = NotRun
    /\ game = NewGame
    /\ score_result = NotCalled
    /\ search_run = NoRun
    /\ setup = NoSetup

BeginSearch(algorithm) ==
    /\ search_run = NoRun
    /\ search_run' = begin_search(algorithm, start_word, target_word)
    /\ UNCHANGED <<graph_vars, search_vars, game, score_result, setup>>

SearchTurn ==
    /\ search_run # NoRun
    /\ ~search_run.returned
    /\ search_run' \in search_turn(search_run, target_word)
    /\ UNCHANGED <<graph_vars, search_vars, game, score_result, setup>>

TurnNext ==
    \/ BeginSearch("BFS")
    \/ BeginSearch("UCS")
    \/ BeginSearch("A*")
    \/ SearchTurn

TurnSpec == TurnInit /\ [][TurnNext]_vars

----------------------------------------------------------------------------
(* Setting up.  A fresh WordLadderGame is given a dictionary source.         *)

\* the most lines a dictionary file holds
MaxLines == 3

\* the lines a file is made of: words with their newline, a word in capitals
\* with blanks around it, an empty line, a line of blanks, a last line without newline
LinePool ==
    {<<"c", "a", "t", "\n">>, <<" ", "C", "o", "t", " ", "\n">>, <<"\n">>,
     <<" ", "\t", "\n">>, <<"d", "o", "g">>}

Sources ==
    {[found |-> FALSE, lines |-> <<>>]}
    \cup {[found |-> TRUE, lines |-> f] : f \in UNION {[1..n -> LinePool] : n \in 0..MaxLines}}

SetupInit ==
    /\ word_list = {}
    /\ word_connections = <<>>
    /\ word_parents = <<>>
    /\ built = FALSE
    /\ start_word = None
    /\ target_word = None
    /\ bfs_result = NotRun
    /\ ucs_result = NotRun
    /\ astar_result = NotRun
    /\ game = NewGame
    /\ score_result = NotCalled
    /\ search_run = NoRun
    /\ setup \in {[called |-> FALSE, source |-> source] : source \in Sources}

InitializeGame ==
    /\ ~setup.called
    /\ LET o == initialize_game(setup.source)
       IN  /\ word_list' = o.word_list
           /\ setup' = [called |-> TRUE, source |-> setup.source, ok |-> o.ok,
                        search_ready |-> o.search_ready]
    /\ UNCHANGED <<word_connections, word_parents, built, search_vars, game,
                   score_result, search_run>>

SetupNext == InitializeGame

SetupSpec == SetupInit /\ [][SetupNext]_vars

----------------------------------------------------------------------------
(* What the claims speak of *)

\* u and v have equal length and differ in exactly one character position
OneLetterApart(u, v) ==
    /\ Len(u) = Len(v)
    /\ Cardinality({i \in 1..Len(u) : u[i] # v[i]}) = 1

RECURSIVE ChainSteps(_, _, _, _)
\* the least number of one-letter steps through dictionary words from the
\* words of frontier to target, counted from d; Inf when no chain exists
ChainSteps(frontier, seen, target, d) ==
    IF target \in frontier THEN d
    ELSE LET next == {w \in word_list \ seen : \E f \in frontier : OneLetterApart(f, w)}
         IN  IF next = {} THEN Inf
             ELSE ChainSteps(next, seen \cup next, target, d + 1)

ChainLength(u, v) == ChainSteps({u}, {u}, v, 0)

RECURSIVE Joined(_, _, _)
\* some chain of neighbours leads from frontier to target
Joined(frontier, seen, target) ==
    IF target \in frontier THEN TRUE
    ELSE LET next == UNION {get_neighbors(f) : f \in frontier} \ seen
         IN  IF next = {} THEN FALSE
             ELSE Joined(next, seen \cup next, target)

Results == {r \in {bfs_result, ucs_result, astar_result} : r.ran}

Edges(result) == Len(result.path) - 1

\* C1: after build, u is in neighbors(v) if and only if v is in neighbors(u)
C1_NeighborsSymmetric ==
    built => \A u, v \in Universe : (u \in get_neighbors(v)) <=> (v \in get_neighbors(u))

\* a built graph with an edge u - v that is stored from one side only: v is the
\* parent of u and u is a connection of v, but u is neither parent nor holder of v
C1_Witness ==
    /\ built
    /\ \E u \in DOMAIN word_parents :
          LET v == word_parents[u]
          IN  /\ word_parents[v] # u
              /\ u \notin DOMAIN word_connections
              /\ u \in get_neighbors(v)
              /\ v \in get_neighbors(u)

\* C2: after build, v is in neighbors(u) if and only if u and v are both in the
\* dictionary, have equal length and differ in exactly one character position
C2_FullAdjacency ==
    built => \A u, v \in Universe :
                (v \in get_neighbors(u)) <=>
                    (u \in word_list /\ v \in word_list /\ OneLetterApart(u, v))

\* C3: when a chain of dictionary words joins start and target, bfs returns a
\* path and its number of edges is the least over all such chains
C3_BfsShortestChain ==
    (/\ bfs_result.ran
     /\ start_word \in word_list
     /\ target_word \in word_list
     /\ ChainLength(start_word, target_word) # Inf)
    => (/\ bfs_result.path # None
        /\ Edges(bfs_result) = ChainLength(start_word, target_word))

\* C4: whenever bfs returns a path, astar returns a path with as many edges
C4_AstarMatchesBfs ==
    (bfs_result.ran /\ astar_result.ran /\ bfs_result.path # None)
    => (astar_result.path # None /\ Edges(astar_result) = Edges(bfs_result))

\* bfs and astar have both found a path of three edges
C4_Witness ==
    /\ bfs_result.ran /\ astar_result.ran
    /\ bfs_result.path # None /\ astar_result.path # None
    /\ Edges(bfs_result) = 3

\* C5: ucs returns a path exactly when bfs does, and with as many edges
C5_UcsMatchesBfs ==
    (bfs_result.ran /\ ucs_result.ran)
    => (/\ (ucs_result.path # None) <=> (bfs_result.path # None)
        /\ ucs_result.path # None => Edges(ucs_result) = Edges(bfs_result))

\* bfs and ucs have both found a path of at least two edges
C5_Witness ==
    /\ bfs_result.ran /\ ucs_result.ran
    /\ bfs_result.path # None /\ ucs_result.path # None
    /\ Edges(ucs_result) >= 2

\* a returned path leads from start to target through dictionary words,
\* each one letter apart from the one before it
WellFormed(path) ==
    /\ path[1] = start_word
    /\ path[Len(path)] = target_word
    /\ \A i \in 1..Len(path) : path[i] \in word_list
    /\ \A i \in 1..(Len(path) - 1) : OneLetterApart(path[i], path[i + 1])

\* C6: every path returned by bfs, ucs or astar starts with the start word, ends
\* with the target word, holds only dictionary words, and each consecutive pair
\* has equal length and differs in exactly one character position
C6_PathsWellFormed ==
    \A r \in Results : r.path # None => WellFormed(r.path)

\* all three searches have returned a path of at least three words
C6_Witness ==
    /\ bfs_result.ran /\ ucs_result.ran /\ astar_result.ran
    /\ \A r \in Results : r.path # None /\ Len(r.path) >= 3

\* no path can exist: a word is missing from the dictionary or no chain of
\* neighbours joins the two
Unjoined ==
    \/ start_word \notin word_list
    \/ target_word \notin word_list
    \/ ~Joined({start_word}, {start_word}, target_word)

\* C7: when start or target is not in the dictionary, or no chain of neighbours
\* joins them, each search returns path None with empty cost metrics
C7_NoPathValue ==
    Unjoined => \A r \in Results : r.path = None /\ r.costs = <<>>

\* both words are in the dictionary, nothing joins them, and all three
\* searches have answered
C7_Witness ==
    /\ start_word \in word_list /\ target_word \in word_list
    /\ ~Joined({start_word}, {start_word}, target_word)
    /\ Results = {Returned(NoPath)}
    /\ bfs_result.ran /\ ucs_result.ran /\ astar_result.ran

CatDog ==
    /\ word_list = {cat, cot, cog, dog, dot}
    /\ start_word = cat
    /\ target_word = dog

\* C8: on {cat, cot, cog, dog, dot}, bfs(cat, dog) returns exactly
\* [cat, cot, dot, dog] with g-cost 3 and astar(cat, dog) a path of 3 edges
C8_CatDogExactPath ==
    CatDog =>
        /\ bfs_result.ran =>
              bfs_result.path = <<cat, cot, dot, dog>> /\ bfs_result.costs.g_cost = 3
        /\ astar_result.ran =>
              astar_result.path # None /\ Edges(astar_result) = 3

\* C8 as amended: bfs(cat, dog) returns [cat, cot, dot, dog] or [cat, cot, cog, dog],
\* with g-cost 3, and astar(cat, dog) returns a path of 3 edges
C8_CatDogThreeEdges ==
    CatDog =>
        /\ bfs_result.ran =>
              /\ bfs_result.path \in {<<cat, cot, dot, dog>>, <<cat, cot, cog, dog>>}
              /\ bfs_result.costs.g_cost = 3
        /\ astar_result.ran =>
              astar_result.path # None /\ Edges(astar_result) = 3

\* both searches have answered on the example
C8_Witness ==
    CatDog /\ bfs_result.ran /\ astar_result.ran

\* C9: isWordValid(word) is true if and only if the lowercased word is in the
\* dictionary, is not banned, has a length within the profile's band and, only
\* when the difficulty is challenge, contains none of the restricted letters
C9_WordValidIff ==
    \A word \in GameInputs :
        is_word_valid(game, word) <=>
            LET w == Lower(word)
            IN  /\ w \in word_list
                /\ w \notin game.banned_words
                /\ game.min_word_length <= Len(w)
                /\ Len(w) <= game.max_word_length
                /\ game.difficulty = challenge =>
                      \A i \in 1..Len(w) : w[i] \notin game.restricted_letters

\* a game started under the challenge profile: stone is valid, crane is in the
\* length band but holds a restricted letter, cot is too short
C9_Witness ==
    /\ game.difficulty = challenge
    /\ game.current_word = stone
    /\ game.restricted_letters # {}
    /\ is_word_valid(game, stone)
    /\ ~is_word_valid(game, crane)
    /\ ~is_word_valid(game, Cot)

\* C10: isValidMove(word) is true if and only if isWordValid(word), the number of
\* moves made so far is less than the move limit, and word is in
\* neighbors(current word)
C10_ValidMoveIff ==
    \A word \in GameInputs :
        is_valid_move(game, word) <=>
            /\ is_word_valid(game, word)
            /\ get_current_moves(game) < game.move_limit
            /\ Lower(word) \in get_neighbors(game.current_word)

\* the fields of the difficulty profile
Profile(g) ==
    <<g.difficulty, g.move_limit, g.min_word_length, g.max_word_length,
      g.banned_words, g.restricted_letters>>

\* C11: makeMove(word) returns true exactly when isValidMove of the lowercased
\* word holds; on success the lowercased word is appended as the last element of
\* the move list and becomes the current word, while target, best path, score,
\* difficulty profile and selected algorithm are unchanged
C11_MakeMoveEffect ==
    \A word \in GameInputs :
        LET o == make_move(game, word)
        IN  /\ o.ok <=> is_valid_move(game, Lower(word))
            /\ o.ok =>
                  /\ o.game.moves = Append(game.moves, Lower(word))
                  /\ o.game.current_word = Lower(word)
                  /\ o.game.target_word = game.target_word
                  /\ o.game.best_path = game.best_path
                  /\ o.game.score = game.score
                  /\ Profile(o.game) = Profile(game)
                  /\ o.game.selected_algorithm = game.selected_algorithm

\* a move has been made, and the move Cot, typed with a capital, is accepted next
C11_Witness ==
    /\ Len(game.moves) >= 2
    /\ game.current_word = game.moves[Len(game.moves)]
    /\ game.current_word = cog
    /\ make_move(game, Cot).ok

\* C12: startNewGame(start, target) returns true if and only if both lowercased
\* words pass isWordValid under the active profile and astar finds a path from
\* start to target; in every other case it returns false
C12_StartNewGameIff ==
    \A p \in GamePairs :
        {o.ok : o \in start_new_game(game, p[1], p[2])} =
            IF is_word_valid(game, Lower(p[1])) /\ is_word_valid(game, Lower(p[2]))
            THEN {r.path # None : r \in astar(Lower(p[1]), Lower(p[2]))}
            ELSE {FALSE}

\* a game from stone to store is on; stone and crane are both valid and nothing
\* joins them, and a pair with a word that is None is refused as well
C12_Witness ==
    /\ game.current_word = stone
    /\ game.target_word = store
    /\ is_word_valid(game, stone) /\ is_word_valid(game, crane)
    /\ \A o \in start_new_game(game, stone, crane) : ~o.ok
    /\ \A o \in start_new_game(game, None, cat) : ~o.ok
    /\ \E o \in start_new_game(game, stone, store) : o.ok

\* C13: after a successful startNewGame(start, target): current word = start,
\* move list = [start], target word = target, score = 0, and best path is the path
\* the currently selected algorithm returns from start to target
C13_StartNewGameResets ==
    \A p \in GamePairs :
        \A o \in start_new_game(game, p[1], p[2]) :
            o.ok =>
               /\ o.game.current_word = Lower(p[1])
               /\ o.game.moves = <<Lower(p[1])>>
               /\ o.game.target_word = Lower(p[2])
               /\ o.game.score = 0
               /\ o.game.best_path \in
                     {r.path : r \in run_algorithm(game.selected_algorithm,
                                                   Lower(p[1]), Lower(p[2]))}

\* with BFS selected, a game from cat to dog has just been set up with a best path
\* of four words, and a game from Cot, typed with a capital, can be started next
C13_Witness ==
    /\ game.selected_algorithm = "BFS"
    /\ game.moves = <<cat>>
    /\ game.current_word = cat
    /\ game.target_word = dog
    /\ game.score = 0
    /\ game.best_path # None
    /\ Len(game.best_path) = 4
    /\ \E o \in start_new_game(game, Cot, dog) : o.ok

\* C14: setDifficulty(level) does not pick new words: current word, target word,
\* move list and best path are the same after the call as before it
C14_DifficultyKeepsWords ==
    \A level \in Levels :
        \A o \in set_difficulty(game, level) :
            /\ o.game.current_word = game.current_word
            /\ o.game.target_word = game.target_word
            /\ o.game.moves = game.moves
            /\ o.game.best_path = game.best_path

\* C15: after setDifficulty(level) with level among beginner, advanced and
\* challenge, whatever it returns, the profile is that of the level: its move
\* limit and length band, no banned words and no restricted letters for beginner
\* and advanced, and for challenge banned words that are dictionary words and
\* three restricted letters
C15_ProfileReplaced ==
    \A level \in Levels :
        \A o \in set_difficulty(game, level) :
            LET g == o.game
            IN  /\ Lower(level) = beginner =>
                      Profile(g) = <<beginner, 10, 3, 4, {}, {}>>
                /\ Lower(level) = advanced =>
                      Profile(g) = <<advanced, 15, 4, 6, {}, {}>>
                /\ Lower(level) = challenge =>
                      /\ <<g.difficulty, g.move_limit, g.min_word_length,
                           g.max_word_length>> = <<challenge, 12, 5, 7>>
                      /\ g.banned_words \subseteq word_list
                      /\ Cardinality(g.restricted_letters) = 3

\* under the challenge profile, with its restricted letters, set_difficulty is
\* called for each of the three levels, and the call for advanced fails
C15_Witness ==
    /\ game.difficulty = challenge
    /\ game.restricted_letters # {}
    /\ game.move_limit = 12
    /\ \E o \in set_difficulty(game, advanced) : ~o.ok
    /\ \E o \in set_difficulty(game, beginner) : o.ok

\* the paths the named algorithm can return from the current word to the target
\* of g, without the None of a search that found nothing
PathsFound(g, name) ==
    {r.path : r \in run_algorithm(name, g.current_word, g.target_word)} \ {None}

\* C16: after setAlgorithm(name) with name one of BFS, UCS, A* while a puzzle is
\* active, the best path is the path that algorithm returns from the current
\* word to the target if it found one, otherwise a shortest path found by any
\* of the three, otherwise unset, and nothing else but the selected algorithm
\* has changed; with no puzzle active only the selected algorithm changes
C16_SetAlgorithmBestPath ==
    \A name \in {"BFS", "UCS", "A*"} :
        \A g \in set_algorithm(game, name) :
            IF game.current_word # None /\ game.target_word # None
            THEN LET any == UNION {PathsFound(game, n) : n \in {"BFS", "UCS", "A*"}}
                 IN  /\ [g EXCEPT !.best_path = None]
                           = [game EXCEPT !.selected_algorithm = name,
                                          !.best_path = None]
                     /\ IF PathsFound(game, name) # {}
                        THEN g.best_path \in PathsFound(game, name)
                        ELSE IF any # {}
                        THEN /\ g.best_path \in any
                             /\ \A q \in any : Len(g.best_path) <= Len(q)
                        ELSE g.best_path = None
            ELSE g = [game EXCEPT !.selected_algorithm = name]

\* UCS has been selected after the move from cat to cot in a game to dog, and the
\* best path now starts at cot
C16_Witness ==
    /\ game.selected_algorithm = "UCS"
    /\ game.moves = <<cat, cot>>
    /\ game.current_word = cot
    /\ game.target_word = dog
    /\ game.best_path = <<cot, cog, dog>>

\* C18: the first isSolved() call that returns true in a game computes the score
\* with computeScore and stores it as the session score: after a call that
\* returns true in a game in play, the stored score is what calculate_score gives
C18_SolvedStoresScore ==
    LET o == is_solved(game)
    IN  (game.current_word # None /\ o.ok) => o.game.score = calculate_score(game)

\* C19: for a difficulty of beginner, advanced or challenge, computeScore
\* returns 0 when actualMoves is 0 and otherwise
\* floor((min(1000 * optimalMoves / actualMoves, 1000)
\*        + (moveLimit - actualMoves) * 100) * m), m = 1.0, 1.5, 2.0;
\* the floor is taken of the exact quotient, with twice m as an integer
C19_ScoreFormula ==
    (score_result.called /\ game.difficulty \in {beginner, advanced, challenge}) =>
        LET optimalMoves == Len(game.best_path) - 1
            actualMoves == Len(game.moves) - 1
            twice_m == IF game.difficulty = beginner THEN 2
                       ELSE IF game.difficulty = advanced THEN 3 ELSE 4
            least == IF optimalMoves < actualMoves THEN optimalMoves ELSE actualMoves
        IN  score_result.value =
               IF actualMoves = 0 THEN 0
               ELSE ((1000 * least
                        + (game.move_limit - actualMoves) * 100 * actualMoves) * twice_m)
                       \div (2 * actualMoves)

\* C20: for fixed optimalMoves, move limit and difficulty, computeScore is
\* non-increasing in actualMoves: the score returned for the moves played is not
\* greater than the score of any shorter, non-empty beginning of them
C20_ScoreNonIncreasing ==
    score_result.called =>
        \A a1 \in 1..(Len(game.moves) - 1) :
            score_result.value
               <= calculate_score([game EXCEPT !.moves = SubSeq(game.moves, 1, a1 + 1)])

\* a score has been returned for five moves that is lower than the score of the
\* first two of them
C20_Witness ==
    /\ score_result.called
    /\ Len(game.moves) - 1 = 5
    /\ score_result.value
          < calculate_score([game EXCEPT !.moves = SubSeq(game.moves, 1, 3)])

\* C21: Solved is terminal: once the current word equals the target, every
\* makeMove is rejected and leaves the current word and the move list as they were
C21_SolvedIsTerminal ==
    (game.current_word # None /\ game.current_word = game.target_word) =>
        \A new_word \in GameInputs :
            LET o == make_move(game, new_word)
            IN  /\ ~o.ok
                /\ o.game.current_word = game.current_word
                /\ o.game.moves = game.moves

\* C22: in every reachable state of a game the moves taken do not exceed the
\* move limit (remainingMoves() >= 0), and when remainingMoves() is 0 with the
\* current word different from the target no makeMove succeeds
C22_WithinMoveLimit ==
    game.current_word # None =>
        /\ get_remaining_moves(game) >= 0
        /\ (get_remaining_moves(game) = 0 /\ game.current_word # game.target_word) =>
               \A new_word \in GameInputs : ~make_move(game, new_word).ok

\* the neighbours get_neighbors gives for the word on the graph g
NeighborsIn(g, word) ==
    (IF word \in DOMAIN g.connections THEN g.connections[word] ELSE {})
    \cup (IF word \in DOMAIN g.parents THEN {g.parents[word]} ELSE {})

\* C26: build is idempotent: any build from the dictionary of the graph at hand
\* gives every word the neighbour set it has in the graph at hand
C26_BuildIdempotent ==
    built =>
        \A g \in build_word_network(word_list) :
            \A word \in word_list : NeighborsIn(g, word) = get_neighbors(word)

\* the pair a search returns for a one-word path that costs nothing
SameWord(word) ==
    [path |-> <<word>>,
     costs |-> [g_cost |-> 0, h_cost |-> 0, f_cost |-> 0, path_length |-> 1]]

\* C28: for every word w of the dictionary, bfs(w, w), ucs(w, w) and astar(w, w)
\* each return the one-word path [w] with g-cost 0, h-cost 0 and f-cost 0,
\* whether or not w has a neighbour; so do the searches that were run on such a pair
C28_SameWordPath ==
    built =>
        /\ \A word \in word_list :
               /\ bfs(word, word) = {SameWord(word)}
               /\ ucs(word, word) = {SameWord(word)}
               /\ astar(word, word) = {SameWord(word)}
        /\ (start_word = target_word /\ start_word \in word_list) =>
               \A r \in Results : r = Returned(SameWord(start_word))

\* the three searches have been run from do to do in a dictionary where do has
\* no neighbour and cat has one, and each returned the path [do]
C28_Witness ==
    /\ built
    /\ start_word = do
    /\ target_word = do
    /\ do \in word_list
    /\ get_neighbors(do) = {}
    /\ get_neighbors(cat) # {}
    /\ bfs_result = Returned(SameWord(do))
    /\ ucs_result = Returned(SameWord(do))
    /\ astar_result = Returned(SameWord(do))

\* C30: a successful startNewGame(start, target) leaves the session Active: the
\* current word differs from the target (isSolved() false) and no move is taken
C30_StartLeavesActive ==
    \A p \in GamePairs :
        \A o \in start_new_game(game, p[1], p[2]) :
            o.ok =>
               /\ ~is_solved(o.game).ok
               /\ get_current_moves(o.game) = 0

\* C24: a rejected operation changes nothing: when makeMove or startNewGame
\* returns false, or setAlgorithm is given a name outside BFS, UCS, A*, every
\* field of the session is as before the call, and the call returns (each has
\* an outcome, none of them an exception)
C24_RejectionChangesNothing ==
    /\ \A new_word \in GameInputs :
           LET o == make_move(game, new_word)
           IN  /\ o.ok \in BOOLEAN
               /\ ~o.ok => o.game = game
    /\ \A p \in GamePairs :
           /\ start_new_game(game, p[1], p[2]) # {}
           /\ \A o \in start_new_game(game, p[1], p[2]) :
                  /\ o.ok \in BOOLEAN
                  /\ ~o.ok => o.game = game
    /\ \A algorithm \in AlgorithmInputs \ {"BFS", "UCS", "A*"} :
           set_algorithm(game, algorithm) = {game}

\* in a game from cat to dog with one move made, a move to cab and a move to dog
\* are refused, a new game from stone to crane (both valid, not joined) is
\* refused, and so is one from cab
C24_Witness ==
    /\ game.moves = <<cat, cot>>
    /\ game.target_word = dog
    /\ ~make_move(game, cab).ok
    /\ ~make_move(game, dog).ok
    /\ is_word_valid(game, stone) /\ is_word_valid(game, crane)
    /\ \A o \in start_new_game(game, stone, crane) : ~o.ok
    /\ \A o \in start_new_game(game, cab, cat) : ~o.ok

\* C23: startNewGameForDifficulty always returns, after at most three attempts,
\* whatever the dictionary and the profile; when no pair it is given is one that
\* startNewGame accepts (the pair selection raises, or the pair is refused) it
\* returns false after the three attempts and leaves the session as it was
C23_BoundedAttempts ==
    LET outcomes == start_new_game_for_difficulty(game)
        acceptable ==
            \E p \in get_word_pair_for_difficulty(game) :
                /\ ~p.raised
                /\ \E o \in start_new_game(game, p.pair[1], p.pair[2]) : o.ok
    IN  /\ outcomes # {}
        /\ \A o \in outcomes :
               /\ o.ok \in BOOLEAN
               /\ o.attempts \in 1..3
               /\ ~acceptable => (~o.ok /\ o.attempts = 3 /\ o.game = game)

\* a game from stone to store is in play under the advanced profile on a graph
\* where cat and dog are not joined: the fallback pairs run out, the pair
\* selection raises, and the call returns false after three attempts
C23_Witness ==
    /\ game.difficulty = advanced
    /\ game.moves = <<stone>>
    /\ game.target_word = store
    /\ get_word_pair_for_difficulty(game) = {Raised}
    /\ start_new_game_for_difficulty(game)
          = {[ok |-> FALSE, game |-> game, attempts |-> 3]}

\* C27: each of bfs, ucs and astar terminates: a word is handed to the frontier
\* at most once, at the moment it is marked visited, so the insertions never
\* exceed the number of dictionary words; every turn of the loop removes one of
\* them, so the turns do not exceed the insertions; and a search that has not
\* returned can always take its next turn
C27_FrontierInsertions ==
    search_run # NoRun =>
        LET added == search_run.added
        IN  /\ \A i, j \in 1..Len(added) : i # j => added[i] # added[j]
            /\ {added[i] : i \in 1..Len(added)} = search_run.visited_words
            /\ search_run.visited_words \subseteq word_list
            /\ Len(added) <= Cardinality(word_list)
            /\ search_run.turns <= Len(added)
            /\ ~search_run.returned => search_turn(search_run, target_word) # {}

\* astar has returned without a path after it put four words on the frontier and
\* took each of them off again
C27_Witness ==
    /\ search_run # NoRun
    /\ search_run.algorithm = "A*"
    /\ search_run.returned
    /\ search_run.result = NoPath
    /\ Len(search_run.added) = 4
    /\ search_run.turns = 4

\* C29: the queue of ucs and astar gives out an entry of the least priority
\* and, among the entries of that priority, the one inserted first, the counter
\* of an entry being the number of insertions before it; so which entry comes
\* next is never left to chance, and two runs of ucs or of astar on the same
\* graph and the same pair return the same path and costs
C29_QueueOrder ==
    /\ (/\ search_run # NoRun /\ search_run.algorithm # "BFS"
        /\ search_run.added # <<>> /\ ~is_empty(search_run)) =>
           LET q == search_run.search_queue
               e == SmartQueue_next_entry(q)
           IN  /\ \A o \in q.items : ~NumLess(o.priority, e.priority)
               /\ \A o \in q.items :
                      (o.priority = e.priority /\ o # e) => e.counter < o.counter
               /\ \A o \in q.items :
                      /\ o.counter < q.counter
                      /\ search_run.added[o.counter + 1] = o.item[1]
    /\ \A r1, r2 \in ucs(start_word, target_word) : r1 = r2
    /\ \A r1, r2 \in astar(start_word, target_word) : r1 = r2

\* a run of ucs from cot has taken one turn and holds three entries of priority 1
C29_Witness ==
    /\ search_run # NoRun
    /\ search_run.algorithm = "UCS"
    /\ search_run.turns = 1
    /\ ~search_run.returned
    /\ Cardinality(search_run.search_queue.items) = 3
    /\ \A o \in search_run.search_queue.items : o.priority = 1

\* C25: initialize_game returns failure exactly when the dictionary source is
\* missing or yields no words; for a readable source with at least one word it
\* returns success, with the words loaded, the graph built and the search
\* engine ready
C25_InitializeGame ==
    setup.called =>
        LET source == setup.source
            yields_a_word ==
                /\ source.found
                /\ \E i \in 1..Len(source.lines) :
                      \E j \in 1..Len(source.lines[i]) :
                          source.lines[i][j] \notin Whitespace
        IN  /\ setup.ok <=> yields_a_word
            /\ setup.ok => (built /\ setup.search_ready /\ word_list # {})

\* C31: Idle is distinct from Solved: with current and target word unset,
\* isSolved() returns false, isValidMove and makeMove return false for every
\* word, and getHint returns no word, with the no-solution message
C31_IdleNotSolved ==
    (game.current_word = None /\ game.target_word = None) =>
        /\ ~is_solved(game).ok
        /\ \A word \in GameInputs :
               /\ ~is_valid_move(game, word)
               /\ ~make_move(game, word).ok
        /\ \A o \in get_hint(game) :
               /\ ~o.raised
               /\ o.word = None
               /\ o.message = "no solution exists!"

\* C32: in every state with a game started, whatever was called since among
\* startNewGame, setDifficulty (which calls startNewGameForDifficulty),
\* makeMove, setAlgorithm and getHint: the move list is not empty, the current
\* word is its last element, and each word of the list is a neighbour in the
\* word graph of the word before it
C32_MovesAreAChain ==
    game.current_word # None =>
        /\ game.moves # <<>>
        /\ game.current_word = game.moves[Len(game.moves)]
        /\ \A i \in 1..(Len(game.moves) - 1) :
               /\ game.moves[i + 1] \in get_neighbors(game.moves[i])
               /\ OneLetterApart(game.moves[i], game.moves[i + 1])

\* set_difficulty("beginner") has started a game from cat to dog, two moves
\* were made, and UCS was selected, which set the best path anew from cog
C32_Witness ==
    /\ game.difficulty = beginner
    /\ game.max_word_length = 4
    /\ game.moves = <<cat, cot, cog>>
    /\ game.current_word = cog
    /\ game.selected_algorithm = "UCS"
    /\ game.best_path = <<cog, dog>>
====
